---- MODULE Spec2Model ----
(***************************************************************************)
(* Model of zmqhelpers.py: the ZMQProxy ventilator (XSUB in, PUSH out,     *)
(* TERMINATE broadcast) and the wire helpers send/recv_zipped_pickle and   *)
(* send/recv_array.                                                        *)
(*                                                                         *)
(* A byte string is a sequence of integers 0..255.  A socket queue is a    *)
(* sequence of frames [body, more]; `more` is the ZMQ SNDMORE/RCVMORE      *)
(* flag of a message part.                                                 *)
(***************************************************************************)
EXTENDS Integers, Sequences, FiniteSets, TLC

\* ---------------------------------------------------------------- bounds
MaxWorkers == 2
MaxFrames == 3

\* ------------------------------------------------------------- constants
\* TERMINATE = b'TERMINATE'
TERMINATE == <<84, 69, 82, 77, 73, 78, 65, 84, 69>>

\* bytes([1]): the XSUB subscribe-all frame
SUBSCRIBE_ALL == <<1>>


\* ------------------------------------------------------------ byte helpers
\* F(v) with v evaluated once: a LET definition is evaluated each time it is
\* used when TLC measures coverage
Strict(v, F(_)) == CHOOSE r \in {F(x) : x \in {v}} : TRUE

RECURSIVE Pow2(_)
Pow2(n) == IF n <= 0 THEN 1 ELSE 2 * Pow2(n - 1)

\* n as `count` bytes, least significant first (two's complement if n < 0):
\* % and \div round towards minus infinity
RECURSIVE LittleEndian(_, _)
LittleEndian(n, count) ==
    IF count = 0 THEN <<>> ELSE <<n % 256>> \o LittleEndian(n \div 256, count - 1)

RECURSIVE FromLittleEndian(_)
FromLittleEndian(bs) ==
    IF bs = <<>> THEN 0 ELSE Head(bs) + 256 * FromLittleEndian(Tail(bs))

\* a 4-byte two's complement number
FromLittleEndianSigned(bs) ==
    FromLittleEndian(SubSeq(bs, 1, 3))
    + 16777216 * (IF bs[4] >= 128 THEN bs[4] - 256 ELSE bs[4])

\* ------------------------------------------------- Python values (objects)
\* A value is a record [t, n, items]: t its type, n the number of an int or
\* bool, items the members of a tuple or list.
PyNone == [t |-> "none", n |-> 0, items |-> <<>>]
PyBool(b) == [t |-> "bool", n |-> IF b THEN 1 ELSE 0, items |-> <<>>]
PyInt(n) == [t |-> "int", n |-> n, items |-> <<>>]
PyTuple(items) == [t |-> "tuple", n |-> 0, items |-> items]
PyList(items) == [t |-> "list", n |-> 0, items |-> items]
PyMark == [t |-> "mark", n |-> 0, items |-> <<>>]

\* ------------------------------------------------------------------ pickle
\* pickle.dumps(obj, -1): protocol 5 opcodes for the values above.
RECURSIVE save(_)
RECURSIVE save_all(_)
save_all(items) ==
    IF items = <<>> THEN <<>> ELSE save(Head(items)) \o save_all(Tail(items))

save(obj) ==
    CASE obj.t = "none" -> <<78>>                                   \* NONE
      [] obj.t = "bool" -> IF obj.n = 1 THEN <<136>> ELSE <<137>>   \* NEWTRUE, NEWFALSE
      [] obj.t = "int" ->
            IF obj.n >= 0 /\ obj.n <= 255 THEN <<75, obj.n>>        \* BININT1
            ELSE IF obj.n >= 0 /\ obj.n <= 65535
                 THEN <<77>> \o LittleEndian(obj.n, 2)              \* BININT2
                 ELSE <<74>> \o LittleEndian(obj.n, 4)              \* BININT
      [] obj.t = "tuple" ->
            LET len == Len(obj.items)
            IN  IF len = 0 THEN <<41>>                              \* EMPTY_TUPLE
                ELSE IF len <= 3
                     THEN save_all(obj.items) \o <<132 + len, 148>> \* TUPLE1..3, MEMOIZE
                     ELSE <<40>> \o save_all(obj.items) \o <<116, 148>> \* MARK .. TUPLE, MEMOIZE
      [] obj.t = "list" ->
            LET len == Len(obj.items)
            IN  <<93, 148>> \o                                      \* EMPTY_LIST, MEMOIZE
                (IF len = 0 THEN <<>>
                 ELSE IF len = 1 THEN save(obj.items[1]) \o <<97>>  \* APPEND
                      ELSE <<40>> \o save_all(obj.items) \o <<101>>) \* MARK .. APPENDS

\* PROTO 5, then the opcodes and STOP, framed when they are 4 bytes or more
pickle_dumps(obj) ==
    LET body == save(obj) \o <<46>>
    IN  <<128, 5>> \o
        (IF Len(body) >= 4 THEN <<149>> \o LittleEndian(Len(body), 8) ELSE <<>>) \o
        body

PickleError == [ok |-> FALSE, value |-> PyNone]

\* index of the topmost MARK of the stack, 0 if none
RECURSIVE TopMark(_, _)
TopMark(stack, k) ==
    IF k = 0 THEN 0
    ELSE IF stack[k] = PyMark THEN k ELSE TopMark(stack, k - 1)

\* pickle.loads: the unpickler's stack machine, from position pos
RECURSIVE load(_, _, _)
load(data, pos, stack) ==
    IF pos > Len(data) THEN PickleError                             \* ran out of input
    ELSE
    LET op == data[pos]
        n == Len(stack)
        has(k) == pos + k <= Len(data)
        arg(k) == SubSeq(data, pos + 1, pos + k)
        \* a frame length of 2^31 or more is longer than any input here
        frame_fits == /\ \A k \in 5..8 : data[pos + k] = 0
                      /\ data[pos + 4] < 128
                      /\ pos + 8 + FromLittleEndian(arg(4)) <= Len(data)
        m == TopMark(stack, n)
    IN  CASE op = 128 -> IF has(1) /\ data[pos + 1] <= 5
                         THEN load(data, pos + 2, stack) ELSE PickleError
          [] op = 149 -> IF has(8) /\ frame_fits
                         THEN load(data, pos + 9, stack) ELSE PickleError
          [] op = 78 -> load(data, pos + 1, Append(stack, PyNone))
          [] op = 136 -> load(data, pos + 1, Append(stack, PyBool(TRUE)))
          [] op = 137 -> load(data, pos + 1, Append(stack, PyBool(FALSE)))
          [] op = 75 -> IF has(1)
                        THEN load(data, pos + 2, Append(stack, PyInt(data[pos + 1])))
                        ELSE PickleError
          [] op = 77 -> IF has(2)
                        THEN load(data, pos + 3, Append(stack, PyInt(FromLittleEndian(arg(2)))))
                        ELSE PickleError
          [] op = 74 -> IF has(4)
                        THEN load(data, pos + 5,
                                  Append(stack, PyInt(FromLittleEndianSigned(arg(4)))))
                        ELSE PickleError
          [] op = 41 -> load(data, pos + 1, Append(stack, PyTuple(<<>>)))
          [] op \in {133, 134, 135} ->
                LET k == op - 132
                IN  IF n >= k /\ m <= n - k
                    THEN load(data, pos + 1,
                              Append(SubSeq(stack, 1, n - k),
                                     PyTuple(SubSeq(stack, n - k + 1, n))))
                    ELSE PickleError
          [] op = 40 -> load(data, pos + 1, Append(stack, PyMark))
          [] op = 116 -> IF m > 0
                         THEN load(data, pos + 1,
                                   Append(SubSeq(stack, 1, m - 1),
                                          PyTuple(SubSeq(stack, m + 1, n))))
                         ELSE PickleError
          [] op = 148 -> IF n > 0 /\ stack[n] # PyMark
                         THEN load(data, pos + 1, stack) ELSE PickleError
          [] op = 93 -> load(data, pos + 1, Append(stack, PyList(<<>>)))
          [] op = 97 -> IF n >= 2 /\ stack[n] # PyMark /\ stack[n - 1].t = "list"
                        THEN load(data, pos + 1,
                                  Append(SubSeq(stack, 1, n - 2),
                                         PyList(Append(stack[n - 1].items, stack[n]))))
                        ELSE PickleError
          [] op = 101 -> IF m > 1 /\ stack[m - 1].t = "list"
                         THEN load(data, pos + 1,
                                   Append(SubSeq(stack, 1, m - 2),
                                          PyList(stack[m - 1].items \o SubSeq(stack, m + 1, n))))
                         ELSE PickleError
          [] op = 46 -> IF n > 0 /\ stack[n] # PyMark
                        THEN [ok |-> TRUE, value |-> stack[n]] ELSE PickleError
          [] OTHER -> PickleError

pickle_loads(data) == load(data, 1, <<>>)

\* -------------------------------------------------------------------- zlib
\* zlib.compress / zlib.decompress at the level of the bytes: the RFC 1950
\* header, one final deflate block with the fixed Huffman codes (RFC 1951,
\* 3.2.6) over the literals and back-references of zlib's lazy matcher
\* (deflate_slow, level 6), and the Adler-32 of the plain bytes.
ZLIB_HEADER == <<120, 156>>

RECURSIVE adler_sums(_, _, _)
adler_sums(data, a, b) ==
    IF data = <<>> THEN <<a, b>>
    ELSE LET a2 == (a + Head(data)) % 65521
         IN  adler_sums(Tail(data), a2, (b + a2) % 65521)

\* Adler-32 as 4 bytes, most significant first
adler32(data) ==
    LET ab == adler_sums(data, 1, 0)
    IN  <<ab[2] \div 256, ab[2] % 256, ab[1] \div 256, ab[1] % 256>>

\* the `width` low bits of n, most significant first (Huffman codes) and
\* least significant first (extra bits)
BitsMSB(n, width) == [k \in 1..width |-> (n \div Pow2(width - k)) % 2]
BitsLSB(n, width) == [k \in 1..width |-> (n \div Pow2(k - 1)) % 2]

RECURSIVE FromBitsMSB(_)
FromBitsMSB(bits) ==
    IF bits = <<>> THEN 0
    ELSE 2 * FromBitsMSB(SubSeq(bits, 1, Len(bits) - 1)) + bits[Len(bits)]

RECURSIVE FromBitsLSB(_)
FromBitsLSB(bits) ==
    IF bits = <<>> THEN 0 ELSE Head(bits) + 2 * FromBitsLSB(Tail(bits))

\* number of bytes on which data[q..] and data[p..] agree (q < p), at most 258
RECURSIVE MatchLen(_, _, _, _)
MatchLen(data, q, p, k) ==
    IF p + k > Len(data) \/ k = 258 \/ data[q + k] # data[p + k] THEN k
    ELSE MatchLen(data, q, p, k + 1)

\* longest_match: the longest earlier match of data[p..], the nearest one
\* among equals, as <<length, distance>>; <<0, 0>> if none
longest_match(data, p) ==
    IF p = 1 THEN <<0, 0>>
    ELSE LET lens == [q \in 1..(p - 1) |-> MatchLen(data, q, p, 0)]
             best == CHOOSE l \in {lens[q] : q \in 1..(p - 1)} :
                         \A q \in 1..(p - 1) : lens[q] <= l
             near == CHOOSE q \in 1..(p - 1) :
                         lens[q] = best /\ \A r \in (q + 1)..(p - 1) : lens[r] < best
         IN  <<best, p - near>>

Literal(b) == [len |-> 0, dist |-> 0, lit |-> b]
Match(len, dist) == [len |-> len, dist |-> dist, lit |-> 0]

\* deflate_slow: the match found at p - 1 is kept back (prev_len, prev_dist)
\* and emitted only if p has no longer one; avail says that the byte at
\* p - 1 is still to be emitted
RECURSIVE deflate_slow(_, _, _, _, _)
deflate_slow(data, p, prev_len, prev_dist, avail) ==
    IF p > Len(data)
    THEN IF avail THEN <<Literal(data[p - 1])>> ELSE <<>>
    ELSE LET found == IF prev_len < 16 THEN longest_match(data, p) ELSE <<0, 0>>
             better == found[1] >= 3 /\ found[1] > prev_len
             len == IF better THEN found[1] ELSE 2
             dist == IF better THEN found[2] ELSE 0
         IN  IF prev_len >= 3 /\ ~better
             THEN <<Match(prev_len, prev_dist)>>
                  \o deflate_slow(data, p - 1 + prev_len, 2, 0, FALSE)
             ELSE IF avail
                  THEN <<Literal(data[p - 1])>> \o deflate_slow(data, p + 1, len, dist, TRUE)
                  ELSE deflate_slow(data, p + 1, len, dist, TRUE)

\* fixed Huffman code of a literal/length symbol 0..287
SymbolCode(sym) ==
    IF sym <= 143 THEN BitsMSB(48 + sym, 8)
    ELSE IF sym <= 255 THEN BitsMSB(400 + (sym - 144), 9)
    ELSE IF sym <= 279 THEN BitsMSB(sym - 256, 7)
    ELSE BitsMSB(192 + (sym - 280), 8)

\* the number of extra bits of a length (base 3 + 2^(e+2)) or of a distance
\* (base 1 + 2^(e+1))
RECURSIVE ExtraBits(_, _, _)
ExtraBits(v, e, shift) ==
    IF v < Pow2(e + shift + 1) THEN e ELSE ExtraBits(v, e + 1, shift)

LengthBits(len) ==
    IF len <= 10 THEN SymbolCode(254 + len)
    ELSE IF len = 258 THEN SymbolCode(285)
    ELSE LET e == ExtraBits(len - 3, 1, 2)
             off == len - (3 + Pow2(e + 2))
         IN  SymbolCode(265 + 4 * (e - 1) + (off \div Pow2(e))) \o BitsLSB(off % Pow2(e), e)

DistBits(dist) ==
    IF dist <= 4 THEN BitsMSB(dist - 1, 5)
    ELSE LET e == ExtraBits(dist - 1, 1, 1)
             off == dist - (1 + Pow2(e + 1))
         IN  BitsMSB(2 * e + 2 + (off \div Pow2(e)), 5) \o BitsLSB(off % Pow2(e), e)

RECURSIVE TokenBits(_)
TokenBits(tokens) ==
    IF tokens = <<>> THEN <<>>
    ELSE LET t == Head(tokens)
         IN  (IF t.len = 0 THEN SymbolCode(t.lit) ELSE LengthBits(t.len) \o DistBits(t.dist))
             \o TokenBits(Tail(tokens))

\* bits to bytes, first bit in the least significant place, zero padded
PackBits(bits) ==
    LET bit(k) == IF k <= Len(bits) THEN bits[k] ELSE 0
    IN  [k \in 1..((Len(bits) + 7) \div 8) |->
            bit(8*k - 7) + 2 * bit(8*k - 6) + 4 * bit(8*k - 5) + 8 * bit(8*k - 4)
            + 16 * bit(8*k - 3) + 32 * bit(8*k - 2) + 64 * bit(8*k - 1) + 128 * bit(8*k)]

UnpackBits(bytes) ==
    [k \in 1..(8 * Len(bytes)) |-> (bytes[(k + 7) \div 8] \div Pow2((k - 1) % 8)) % 2]

\* BFINAL = 1, BTYPE = 01, the tokens, end of block (symbol 256)
deflate(data) ==
    Strict(deflate_slow(data, 1, 2, 0, FALSE), LAMBDA tokens :
        PackBits(<<1, 1, 0>> \o TokenBits(tokens) \o SymbolCode(256)))

zlib_compress(data) == ZLIB_HEADER \o deflate(data) \o adler32(data)

ZlibError == [ok |-> FALSE, data |-> <<>>]
InflateError == [ok |-> FALSE, data |-> <<>>, next |-> 0]

\* copy len bytes from dist back, byte by byte: where the ranges overlap
\* the last dist bytes are repeated
copy_match(out, len, dist) ==
    out \o [k \in 1..len |-> out[Len(out) - dist + 1 + ((k - 1) % dist)]]

\* a fixed-Huffman block from bit position pos; the result is [ok, data,
\* next]: next is the position after the end-of-block code
\* the literal/length symbol at bit position pos, with the bits of its code:
\* <<-1, 0>> if the input ends first
fixed_symbol(bits, pos) ==
    LET code(k) == FromBitsMSB(SubSeq(bits, pos, pos + k - 1))
        has(k) == pos + k - 1 <= Len(bits)
    IN  IF ~has(7) THEN <<-1, 0>>
        ELSE IF code(7) <= 23 THEN <<256 + code(7), 7>>
        ELSE IF ~has(8) THEN <<-1, 0>>
        ELSE IF code(8) <= 191 THEN <<code(8) - 48, 8>>
        ELSE IF code(8) <= 199 THEN <<280 + (code(8) - 192), 8>>
        ELSE IF ~has(9) THEN <<-1, 0>>
        ELSE <<144 + (code(9) - 400), 9>>

\* the back-reference whose length symbol s ended before bit position p1:
\* [ok, len, dist, next]
fixed_match(bits, s, p1) ==
    LET extra(at, k) == FromBitsLSB(SubSeq(bits, at, at + k - 1))
        has(at, k) == at + k - 1 <= Len(bits)
        le == IF s <= 264 \/ s = 285 THEN 0 ELSE (s - 261) \div 4
        p2 == p1 + le
        dc == FromBitsMSB(SubSeq(bits, p2, p2 + 4))
        de == IF dc <= 3 THEN 0 ELSE (dc - 2) \div 2
        p3 == p2 + 5
        bad == [ok |-> FALSE, len |-> 0, dist |-> 0, next |-> 0]
    IN  IF ~has(p1, le) \/ ~has(p2, 5) THEN bad
        ELSE IF dc >= 30 \/ ~has(p3, de) THEN bad           \* invalid distance code
        ELSE [ok |-> TRUE,
              len |-> IF s <= 264 THEN s - 254
                      ELSE IF s = 285 THEN 258
                      ELSE 3 + Pow2(le + 2) + ((s - 265) % 4) * Pow2(le) + extra(p1, le),
              dist |-> IF dc <= 3 THEN dc + 1
                       ELSE 1 + Pow2(de + 1) + (dc % 2) * Pow2(de) + extra(p3, de),
              next |-> p3 + de]

\* a fixed-Huffman block from bit position pos; the result is [ok, data,
\* next]: next is the position after the end-of-block code
RECURSIVE inflate_fixed(_, _, _)
inflate_fixed(bits, pos, out) ==
    Strict(fixed_symbol(bits, pos), LAMBDA sym :
        IF sym[1] < 0 THEN InflateError
        ELSE IF sym[1] <= 255
             THEN Strict(<<pos + sym[2], Append(out, sym[1])>>, LAMBDA st :
                      inflate_fixed(bits, st[1], st[2]))
        ELSE IF sym[1] = 256 THEN [ok |-> TRUE, data |-> out, next |-> pos + 7]
        ELSE IF sym[1] >= 286 THEN InflateError             \* invalid literal/length code
        ELSE Strict(fixed_match(bits, sym[1], pos + sym[2]), LAMBDA m :
                 IF ~m.ok \/ m.dist > Len(out) THEN InflateError     \* or too far back
                 ELSE Strict(copy_match(out, m.len, m.dist), LAMBDA copied :
                          inflate_fixed(bits, m.next, copied))))

zlib_decompress(data) ==
    IF Len(data) < 2 THEN ZlibError
    ELSE IF data[1] % 16 # 8 \/ data[1] \div 16 > 7      \* CM = 8, CINFO <= 7
              \/ (256 * data[1] + data[2]) % 31 # 0       \* FCHECK
              \/ (data[2] \div 32) % 2 = 1                \* FDICT
         THEN ZlibError
    ELSE Strict(UnpackBits(SubSeq(data, 3, Len(data))), LAMBDA bits :
             IF Len(bits) < 3 \/ bits[1] # 1 \/ bits[2] # 1 \/ bits[3] # 0
             THEN ZlibError
             ELSE Strict(inflate_fixed(bits, 4, <<>>), LAMBDA r :
                      LET trailer == 2 + ((r.next - 1 + 7) \div 8)
                      IN  IF ~r.ok \/ Len(data) < trailer + 4 THEN ZlibError
                          ELSE IF SubSeq(data, trailer + 1, trailer + 4) # adler32(r.data)
                               THEN ZlibError
                               ELSE [ok |-> TRUE, data |-> r.data]))

\* -------------------------------------------------------------------- json
\* send_json / recv_json: json.dumps(...).encode('utf8') and json.loads of a
\* dictionary whose values are strings and lists of integers.  Text is a
\* byte string (ASCII codes).
JsonStr(bytes) == [kind |-> "str", str |-> bytes, list |-> <<>>]
JsonList(ints) == [kind |-> "list", str |-> <<>>, list |-> ints]

KEY_DTYPE == <<100, 116, 121, 112, 101>>      \* dtype
KEY_SHAPE == <<115, 104, 97, 112, 101>>       \* shape

RECURSIVE Decimal(_)
Decimal(n) ==
    IF n < 0 THEN <<45>> \o Decimal(0 - n)
    ELSE IF n < 10 THEN <<48 + n>>
    ELSE Decimal(n \div 10) \o <<48 + (n % 10)>>

RECURSIVE json_items(_)
json_items(ints) ==
    IF ints = <<>> THEN <<>>
    ELSE IF Len(ints) = 1 THEN Decimal(ints[1])
    ELSE Decimal(Head(ints)) \o <<44, 32>> \o json_items(Tail(ints))

json_value(v) ==
    IF v.kind = "str" THEN <<34>> \o v.str \o <<34>>
    ELSE <<91>> \o json_items(v.list) \o <<93>>

RECURSIVE json_members(_)
json_members(dict) ==
    IF dict = <<>> THEN <<>>
    ELSE <<34>> \o Head(dict).key \o <<34, 58, 32>> \o json_value(Head(dict).val)
         \o (IF Len(dict) = 1 THEN <<>> ELSE <<44, 32>> \o json_members(Tail(dict)))

\* json.dumps of a dictionary given as a sequence of [key, val] in insertion order
json_dumps(dict) == <<123>> \o json_members(dict) \o <<125>>

JsonFail == [ok |-> FALSE, val |-> <<>>, next |-> 0]

RECURSIVE skip_ws(_, _)
skip_ws(text, pos) ==
    IF pos <= Len(text) /\ text[pos] \in {32, 9, 10, 13} THEN skip_ws(text, pos + 1) ELSE pos

at(text, pos, c) == pos <= Len(text) /\ text[pos] = c

\* the characters of a string up to its closing quote (no escapes here)
RECURSIVE scan_string(_, _, _)
scan_string(text, pos, acc) ==
    IF pos > Len(text) \/ text[pos] = 92 \/ text[pos] < 32 THEN JsonFail
    ELSE IF text[pos] = 34 THEN [ok |-> TRUE, val |-> acc, next |-> pos + 1]
    ELSE scan_string(text, pos + 1, Append(acc, text[pos]))

parse_string(text, pos) ==
    IF at(text, pos, 34) THEN scan_string(text, pos + 1, <<>>) ELSE JsonFail

RECURSIVE scan_digits(_, _, _)
scan_digits(text, pos, acc) ==
    IF pos <= Len(text) /\ text[pos] >= 48 /\ text[pos] <= 57
    THEN scan_digits(text, pos + 1, 10 * acc + (text[pos] - 48))
    ELSE [ok |-> TRUE, val |-> acc, next |-> pos]

parse_int(text, pos) ==
    LET neg == at(text, pos, 45)
        first == IF neg THEN pos + 1 ELSE pos
        r == scan_digits(text, first, 0)
    IN  IF r.next = first THEN JsonFail
        ELSE [ok |-> TRUE, val |-> IF neg THEN 0 - r.val ELSE r.val, next |-> r.next]

\* after '[' or ',': an integer, then ',' or ']'
RECURSIVE parse_items(_, _, _)
parse_items(text, pos, acc) ==
    LET r == parse_int(text, skip_ws(text, pos))
        p == skip_ws(text, r.next)
    IN  IF ~r.ok THEN JsonFail
        ELSE IF at(text, p, 44) THEN parse_items(text, p + 1, Append(acc, r.val))
        ELSE IF at(text, p, 93)
             THEN [ok |-> TRUE, val |-> Append(acc, r.val), next |-> p + 1]
             ELSE JsonFail

parse_value(text, pos) ==
    IF at(text, pos, 34)
    THEN LET r == parse_string(text, pos)
         IN  IF r.ok THEN [r EXCEPT !.val = JsonStr(r.val)] ELSE JsonFail
    ELSE IF at(text, pos, 91)
    THEN LET p == skip_ws(text, pos + 1)
             r == IF at(text, p, 93) THEN [ok |-> TRUE, val |-> <<>>, next |-> p + 1]
                  ELSE parse_items(text, p, <<>>)
         IN  IF r.ok THEN [r EXCEPT !.val = JsonList(r.val)] ELSE JsonFail
    ELSE JsonFail

\* after '{' or ',': "key": value, then ',' or '}'
RECURSIVE parse_members(_, _, _)
parse_members(text, pos, acc) ==
    LET k == parse_string(text, skip_ws(text, pos))
        colon == skip_ws(text, k.next)
        v == parse_value(text, skip_ws(text, colon + 1))
        p == skip_ws(text, v.next)
    IN  IF ~k.ok \/ ~at(text, colon, 58) \/ ~v.ok THEN JsonFail
        ELSE LET dict == Append(acc, [key |-> k.val, val |-> v.val])
             IN  IF at(text, p, 44) THEN parse_members(text, p + 1, dict)
                 ELSE IF at(text, p, 125) THEN [ok |-> TRUE, val |-> dict, next |-> p + 1]
                 ELSE JsonFail

\* json.loads: [ok, val]; val is the dictionary
json_loads(text) ==
    LET open == skip_ws(text, 1)
        p == skip_ws(text, open + 1)
        r == IF ~at(text, open, 123) THEN JsonFail
             ELSE IF at(text, p, 125) THEN [ok |-> TRUE, val |-> <<>>, next |-> p + 1]
             ELSE parse_members(text, p, <<>>)
    IN  IF r.ok /\ skip_ws(text, r.next) = Len(text) + 1
        THEN [ok |-> TRUE, val |-> r.val]
        ELSE [ok |-> FALSE, val |-> <<>>]

\* dictionary[key]: the last member with that key; ok is FALSE on a KeyError
RECURSIVE dict_get(_, _)
dict_get(dict, key) ==
    IF dict = <<>> THEN [ok |-> FALSE, val |-> JsonList(<<>>)]
    ELSE IF dict[Len(dict)].key = key THEN [ok |-> TRUE, val |-> dict[Len(dict)].val]
    ELSE dict_get(SubSeq(dict, 1, Len(dict) - 1), key)

\* ------------------------------------------------------------------- numpy
\* An array is [dtype, shape, data]: the dtype's name, the shape, and the
\* buffer's bytes in memory order.
DTypes == {"uint8", "int16", "float32", "float64"}

itemsize(dtype) ==
    CASE dtype = "uint8" -> 1 [] dtype = "int16" -> 2
      [] dtype = "float32" -> 4 [] dtype = "float64" -> 8

\* str(array.dtype)
dtype_str(dtype) ==
    CASE dtype = "uint8" -> <<117, 105, 110, 116, 56>>
      [] dtype = "int16" -> <<105, 110, 116, 49, 54>>
      [] dtype = "float32" -> <<102, 108, 111, 97, 116, 51, 50>>
      [] dtype = "float64" -> <<102, 108, 111, 97, 116, 54, 52>>

RECURSIVE Product(_)
Product(shape) == IF shape = <<>> THEN 1 ELSE Head(shape) * Product(Tail(shape))

NpArray(dtype, shape, data) == [dtype |-> dtype, shape |-> shape, data |-> data]
NpError == [ok |-> FALSE, value |-> NpArray("uint8", <<0>>, <<>>)]

\* a faulty variant: the dtype is not passed on and numpy's default is used
np_frombuffer_default(buffer, name) ==
    IF Len(buffer) % itemsize("float64") # 0 THEN NpError
    ELSE [ok |-> TRUE,
          value |-> NpArray("float64", <<Len(buffer) \div itemsize("float64")>>, buffer)]

\* np.frombuffer(buffer, dtype=name): a rank-1 array over the buffer
np_frombuffer(buffer, name) ==
    IF \A d \in DTypes : dtype_str(d) # name THEN NpError            \* TypeError
    ELSE LET dtype == CHOOSE d \in DTypes : dtype_str(d) = name
         IN  IF Len(buffer) % itemsize(dtype) # 0 THEN NpError       \* ValueError
             ELSE [ok |-> TRUE,
                   value |-> NpArray(dtype, <<Len(buffer) \div itemsize(dtype)>>, buffer)]

\* array.reshape(shape); one dimension may be -1 and is then inferred
np_reshape(array, shape) ==
    LET size == Product(array.shape)
        unknown == {k \in 1..Len(shape) : shape[k] = -1}
        known == Product([k \in 1..Len(shape) |-> IF shape[k] = -1 THEN 1 ELSE shape[k]])
    IN  IF (\E k \in 1..Len(shape) : shape[k] < -1) \/ Cardinality(unknown) > 1
        THEN NpError                                                 \* ValueError
        ELSE IF unknown = {}
        THEN IF known # size THEN NpError
             ELSE [ok |-> TRUE, value |-> NpArray(array.dtype, shape, array.data)]
        ELSE IF known = 0 \/ size % known # 0 THEN NpError
             ELSE [ok |-> TRUE,
                   value |-> NpArray(array.dtype,
                                     [k \in 1..Len(shape) |->
                                         IF shape[k] = -1 THEN size \div known ELSE shape[k]],
                                     array.data)]

\* ----------------------------------------------------------------- sockets
\* socket.send(body, flags): one more frame on the socket's queue
Frame(body, more) == [body |-> body, more |-> more]
socket_send(socket, body, more) == Append(socket, Frame(body, more))

\* a faulty variant: the comparison inverted
check_termination_inverted(s) == s # TERMINATE

\* a faulty variant: s.startswith(TERMINATE)
check_termination_prefix(s) ==
    Len(s) >= Len(TERMINATE) /\ SubSeq(s, 1, Len(TERMINATE)) = TERMINATE

\* EnableTermination.check_termination
check_termination(s) == s = TERMINATE

\* a faulty variant: the pickle is sent as it is, not compressed
send_zipped_pickle_plain(socket, obj) ==
    Strict(pickle_dumps(obj), LAMBDA object : socket_send(socket, object, FALSE))

send_zipped_pickle(socket, obj) ==
    Strict(pickle_dumps(obj), LAMBDA object :
    Strict(zlib_compress(object), LAMBDA compressed_object :
        socket_send(socket, compressed_object, FALSE)))

\* the result of a receive: the socket after it, ok = no exception, the value
RecvResult(socket, ok, value) == [socket |-> socket, ok |-> ok, value |-> value]

\* a faulty variant: the exceptions are swallowed and None is returned
recv_zipped_pickle_lenient(socket) ==
    Strict(Head(socket).body, LAMBDA message :
    Strict(zlib_decompress(message), LAMBDA object :
        IF ~object.ok THEN RecvResult(Tail(socket), TRUE, PyNone)
        ELSE Strict(pickle_loads(object.data), LAMBDA loaded :
                 RecvResult(Tail(socket), TRUE, loaded.value))))

recv_zipped_pickle(socket) ==
    Strict(Head(socket).body, LAMBDA message :
    Strict(zlib_decompress(message), LAMBDA object :
        IF ~object.ok THEN RecvResult(Tail(socket), FALSE, PyNone)       \* zlib.error
        ELSE Strict(pickle_loads(object.data), LAMBDA loaded :
                 RecvResult(Tail(socket), loaded.ok, loaded.value))))

send_array(socket, array) ==
    LET dictionary == <<[key |-> KEY_DTYPE, val |-> JsonStr(dtype_str(array.dtype))],
                        [key |-> KEY_SHAPE, val |-> JsonList(array.shape)]>>
    IN  socket_send(socket_send(socket, json_dumps(dictionary), TRUE), array.data, FALSE)

\* recv_array blocks in its second receive while the socket holds one frame
\* only: recv_array_blocked
recv_array_blocked(socket) ==
    socket = <<>> \/ (json_loads(Head(socket).body).ok /\ Len(socket) < 2)

recv_array(socket) ==
    Strict(json_loads(Head(socket).body), LAMBDA dictionary :
        IF ~dictionary.ok THEN RecvResult(Tail(socket), FALSE, NpError.value)
        ELSE
        LET message == socket[2].body
            dtype == dict_get(dictionary.val, KEY_DTYPE)
            shape == dict_get(dictionary.val, KEY_SHAPE)
            rest == SubSeq(socket, 3, Len(socket))
        IN  IF ~dtype.ok \/ dtype.val.kind # "str"
            THEN RecvResult(rest, FALSE, NpError.value)
            ELSE Strict(np_frombuffer(message, dtype.val.str), LAMBDA array :
                     IF ~array.ok \/ ~shape.ok \/ shape.val.kind # "list"
                     THEN RecvResult(rest, FALSE, NpError.value)
                     ELSE Strict(np_reshape(array.value, shape.val.list), LAMBDA reshaped :
                              RecvResult(rest, reshaped.ok, reshaped.value))))

\* ------------------------------------------------------------------ inputs
MaxItems == 2
MaxRank == 3
MaxDim == 3

SeqsUpTo(S, n) == UNION {[1..k -> S] : k \in 0..n}

Scalars == {PyNone, PyBool(TRUE), PyBool(FALSE)}
           \cup {PyInt(n) : n \in {0, 255, 256, 65536, -1}}

\* the objects handed to send_zipped_pickle
Values == Scalars \cup {PyTuple(items) : items \in SeqsUpTo(Scalars, MaxItems)}
                  \cup {PyList(items) : items \in SeqsUpTo(Scalars, MaxItems)}

\* buffers of n bytes: a ramp, and the text TERMINATE over and over
Buffer(pattern, n) ==
    [k \in 1..n |-> IF pattern = "ramp" THEN (k - 1) % 256 ELSE TERMINATE[((k - 1) % 9) + 1]]

\* the arrays handed to send_array
Arrays == {NpArray(d, shape, Buffer(pattern, Product(shape) * itemsize(d))) :
              d \in DTypes, shape \in SeqsUpTo(0..MaxDim, MaxRank), pattern \in {"ramp", "text"}}

\* what the producers of the proxy publish
ProxyObjects == {PyNone, PyTuple(<<PyInt(256), PyBool(TRUE)>>)}
ProxyArrays == {NpArray("int16", <<1>>, Buffer("ramp", 2))}

VARIABLES
    workers,            \* self.workers
    pc,                 \* position of run()
    msg,                \* local msg of run()
    i,                  \* loop index of the drain loop
    error,              \* where the exception that left run() was raised, or "none"
    receiver_q,         \* frames queued at the XSUB socket, not yet received
    receiver_bound,     \* receiver.bind returned
    receiver_sent,      \* frames run() sent on the receiver socket
    receiver_closed,    \* receiver.close() was called
    published,          \* history: the frames that reached the XSUB socket, in order
    ventilator_q,       \* frames pushed and not yet taken by a worker
    ventilator_bound,   \* ventilator.bind returned
    ventilator_closed,  \* ventilator.close() was called
    received,           \* history: what receiver.recv() returned, in order
    pushed,             \* history: the frames given to ventilator.send(), in order
    worker,             \* the consumers connected to the PUSH socket
    wire,               \* codec: the socket between a sender and a receiver
    sent,               \* codec: what the sender sent
    result              \* codec: what the last receive returned

proxyVars == <<workers, pc, msg, i, error, receiver_q, receiver_bound,
               receiver_sent, receiver_closed, published, ventilator_q,
               ventilator_bound, ventilator_closed, received, pushed, worker>>
codecVars == <<wire, sent, result>>
vars == <<proxyVars, codecVars>>

\* ------------------------------------------------------------ ZMQProxy.run
ProxyStart(k) ==
    /\ workers = k
    /\ pc = "bind_ventilator"
    /\ msg = <<>>
    /\ i = 0
    /\ error = "none"
    /\ receiver_q = <<>>
    /\ receiver_bound = FALSE
    /\ receiver_sent = <<>>
    /\ receiver_closed = FALSE
    /\ published = <<>>
    /\ ventilator_q = <<>>
    /\ ventilator_bound = FALSE
    /\ ventilator_closed = FALSE
    /\ received = <<>>
    /\ pushed = <<>>
    /\ worker = [w \in 1..workers |-> [state |-> "running", sentinels |-> 0]]

\* ZMQProxy(workers): the proxy of a pool of 0..MaxWorkers workers
ProxyInit == \E k \in 0..MaxWorkers : ProxyStart(k)

CodecIdle ==
    /\ wire = <<>>
    /\ sent = [op |-> "none", value |-> PyNone, frames |-> <<>>]
    /\ result = [op |-> "none"]

\* a faulty variant: the exception is recorded and the loop goes on
RaiseAndRetry(where) ==
    /\ pc' = pc
    /\ error' = where

\* an exception leaves run(): nothing after the raising call is executed
Raise(where) ==
    /\ pc' = "raised"
    /\ error' = where

\* ventilator.bind(f'tcp://*:{self.send}')
BindVentilator ==
    /\ pc = "bind_ventilator"
    /\ ventilator_bound' = TRUE
    /\ pc' = "bind_receiver"
    /\ UNCHANGED <<published, workers, msg, i, error, receiver_q, receiver_bound, receiver_sent,
                   receiver_closed, ventilator_q, ventilator_closed, received, pushed,
                   worker, codecVars>>

\* a faulty variant: the failure to bind is noted and run() goes on
BindVentilatorFailIgnored ==
    /\ pc = "bind_ventilator"
    /\ error' = "bind"
    /\ pc' = "bind_receiver"
    /\ UNCHANGED <<published, workers, msg, i, receiver_q, receiver_bound, receiver_sent,
                   receiver_closed, ventilator_q, ventilator_bound, ventilator_closed,
                   received, pushed, worker, codecVars>>

BindVentilatorFail ==
    /\ pc = "bind_ventilator"
    /\ Raise("bind")
    /\ UNCHANGED <<published, workers, msg, i, receiver_q, receiver_bound, receiver_sent,
                   receiver_closed, ventilator_q, ventilator_bound, ventilator_closed,
                   received, pushed, worker, codecVars>>

\* receiver.bind(f'tcp://*:{self.recv}')
BindReceiver ==
    /\ pc = "bind_receiver"
    /\ receiver_bound' = TRUE
    /\ pc' = "subscribe"
    /\ UNCHANGED <<published, workers, msg, i, error, receiver_q, receiver_sent, receiver_closed,
                   ventilator_q, ventilator_bound, ventilator_closed, received, pushed,
                   worker, codecVars>>

BindReceiverFail ==
    /\ pc = "bind_receiver"
    /\ Raise("bind")
    /\ UNCHANGED <<published, workers, msg, i, receiver_q, receiver_bound, receiver_sent,
                   receiver_closed, ventilator_q, ventilator_bound, ventilator_closed,
                   received, pushed, worker, codecVars>>

\* a faulty variant: the subscription byte is sent on the other socket
SubscribeOnVentilator ==
    /\ pc = "subscribe"
    /\ ventilator_q' = socket_send(ventilator_q, SUBSCRIBE_ALL, FALSE)
    /\ pushed' = Append(pushed, SUBSCRIBE_ALL)
    /\ pc' = "recv"
    /\ UNCHANGED <<published, workers, msg, i, error, receiver_q, receiver_bound,
                   receiver_sent, receiver_closed, ventilator_bound, ventilator_closed,
                   received, worker, codecVars>>

\* receiver.send(bytes([1]))
Subscribe ==
    /\ pc = "subscribe"
    /\ receiver_sent' = Append(receiver_sent, SUBSCRIBE_ALL)
    /\ pc' = "recv"
    /\ UNCHANGED <<published, workers, msg, i, error, receiver_q, receiver_bound, receiver_closed,
                   ventilator_q, ventilator_bound, ventilator_closed, received, pushed,
                   worker, codecVars>>

\* a faulty variant: a receive that times out on an empty socket and ends
\* the loop
RecvOrTimeout ==
    /\ pc = "recv"
    /\ IF receiver_q = <<>>
       THEN /\ pc' = "done"
            /\ UNCHANGED <<msg, receiver_q, received, i>>
       ELSE /\ msg' = Head(receiver_q).body
            /\ receiver_q' = Tail(receiver_q)
            /\ received' = Append(received, msg')
            /\ pc' = IF ~check_termination(msg') THEN "send" ELSE "drain"
            /\ i' = 0
    /\ UNCHANGED <<published, workers, error, receiver_bound, receiver_sent, receiver_closed,
                   ventilator_q, ventilator_bound, ventilator_closed, pushed, worker,
                   codecVars>>

\* a faulty variant: the drain loop receives again before each send
RecvInDrainLoop ==
    /\ pc \in {"recv", "drain"}
    /\ receiver_q # <<>>
    /\ msg' = Head(receiver_q).body
    /\ receiver_q' = Tail(receiver_q)
    /\ received' = Append(received, msg')
    /\ pc' = IF pc = "drain" THEN "drain"
             ELSE IF ~check_termination(msg') THEN "send" ELSE "drain"
    /\ i' = i
    /\ UNCHANGED <<published, workers, error, receiver_bound, receiver_sent, receiver_closed,
                   ventilator_q, ventilator_bound, ventilator_closed, pushed, worker,
                   codecVars>>

\* msg = receiver.recv(): one frame, whatever its MORE flag; then the test
\* of check_termination(msg) chooses the branch
Recv ==
    /\ pc = "recv"
    /\ receiver_q # <<>>
    /\ msg' = Head(receiver_q).body
    /\ receiver_q' = Tail(receiver_q)
    /\ received' = Append(received, msg')
    /\ pc' = IF ~check_termination(msg') THEN "send" ELSE "drain"
    /\ i' = 0
    /\ UNCHANGED <<published, workers, error, receiver_bound, receiver_sent, receiver_closed,
                   ventilator_q, ventilator_bound, ventilator_closed, pushed, worker,
                   codecVars>>

RecvFail ==
    /\ pc = "recv"
    /\ Raise("recv")
    /\ UNCHANGED <<published, workers, msg, i, receiver_q, receiver_bound, receiver_sent,
                   receiver_closed, ventilator_q, ventilator_bound, ventilator_closed,
                   received, pushed, worker, codecVars>>

\* ventilator.send(msg): a complete one-frame message
VentilatorSend ==
    /\ ventilator_q' = socket_send(ventilator_q, msg, FALSE)
    /\ pushed' = Append(pushed, msg)

\* a faulty variant: the frame is dropped instead of sent
ForwardDropped ==
    /\ pc = "send"
    /\ pc' = "recv"
    /\ UNCHANGED <<published, workers, msg, i, error, receiver_q, receiver_bound,
                   receiver_sent, receiver_closed, ventilator_q, ventilator_bound,
                   ventilator_closed, received, pushed, worker, codecVars>>

\* if not self.check_termination(msg): ventilator.send(msg)
Forward ==
    /\ pc = "send"
    /\ VentilatorSend
    /\ pc' = "recv"
    /\ UNCHANGED <<published, workers, msg, i, error, receiver_q, receiver_bound, receiver_sent,
                   receiver_closed, ventilator_bound, ventilator_closed, received, worker,
                   codecVars>>

ForwardFail ==
    /\ pc = "send"
    /\ Raise("send")
    /\ UNCHANGED <<published, workers, msg, i, receiver_q, receiver_bound, receiver_sent,
                   receiver_closed, ventilator_q, ventilator_bound, ventilator_closed,
                   received, pushed, worker, codecVars>>

\* faulty variants: one iteration too many, one too few
DrainRangeLong == 0..workers
DrainRangeShort == 0..(workers - 2)

\* range(self.workers)
DrainRange == 0..(workers - 1)

\* for i in range(self.workers): ventilator.send(msg)
DrainSend ==
    /\ pc = "drain"
    /\ i \in DrainRange
    /\ VentilatorSend
    /\ i' = i + 1
    /\ UNCHANGED <<published, workers, pc, msg, error, receiver_q, receiver_bound, receiver_sent,
                   receiver_closed, ventilator_bound, ventilator_closed, received, worker,
                   codecVars>>

DrainSendFail ==
    /\ pc = "drain"
    /\ i \in DrainRange
    /\ Raise("send")
    /\ UNCHANGED <<published, workers, msg, i, receiver_q, receiver_bound, receiver_sent,
                   receiver_closed, ventilator_q, ventilator_bound, ventilator_closed,
                   received, pushed, worker, codecVars>>

\* a faulty variant: the receiver is left open
CloseReceiverSkipped ==
    /\ pc = "drain"
    /\ i \notin 0..(workers - 1)
    /\ pc' = "close_ventilator"
    /\ UNCHANGED <<published, workers, msg, i, error, receiver_q, receiver_bound,
                   receiver_sent, receiver_closed, ventilator_q, ventilator_bound,
                   ventilator_closed, received, pushed, worker, codecVars>>

\* receiver.close(), after the loop over range(self.workers)
CloseReceiver ==
    /\ pc = "drain"
    /\ i \notin DrainRange
    /\ receiver_closed' = TRUE
    /\ pc' = "close_ventilator"
    /\ UNCHANGED <<published, workers, msg, i, error, receiver_q, receiver_bound, receiver_sent,
                   ventilator_q, ventilator_bound, ventilator_closed, received, pushed,
                   worker, codecVars>>

\* a faulty variant: the break is missing and the loop receives again
CloseVentilatorNoBreak ==
    /\ pc = "close_ventilator"
    /\ ventilator_closed' = TRUE
    /\ pc' = "recv"
    /\ UNCHANGED <<published, workers, msg, i, error, receiver_q, receiver_bound,
                   receiver_sent, receiver_closed, ventilator_q, ventilator_bound, received,
                   pushed, worker, codecVars>>

\* ventilator.close(); break: run() returns
CloseVentilator ==
    /\ pc = "close_ventilator"
    /\ ventilator_closed' = TRUE
    /\ pc' = "done"
    /\ UNCHANGED <<published, workers, msg, i, error, receiver_q, receiver_bound, receiver_sent,
                   receiver_closed, ventilator_q, ventilator_bound, received, pushed,
                   worker, codecVars>>

\* ----------------------------------------------------- producers and workers
\* A producer's socket reaches the XSUB socket once it is bound and has
\* subscribed, and until it is closed.
Subscribed == receiver_bound /\ receiver_sent # <<>> /\ ~receiver_closed

Arrives(frames) ==
    /\ Subscribed
    /\ Len(published) + frames <= MaxFrames

\* the frames a producer's call put on its socket reach the receiver
Reach(kind, frames) ==
    /\ receiver_q' = receiver_q \o frames
    /\ published' = published \o [k \in 1..Len(frames) |->
                                     [body |-> frames[k].body, kind |-> kind,
                                      more |-> frames[k].more]]

\* a producer calls send_zipped_pickle(socket, obj)
PublishObject ==
    /\ Arrives(1)
    /\ \E obj \in ProxyObjects : Reach("object", send_zipped_pickle(<<>>, obj))
    /\ UNCHANGED <<workers, pc, msg, i, error, receiver_bound, receiver_sent,
                   receiver_closed, ventilator_q, ventilator_bound, ventilator_closed,
                   received, pushed, worker, codecVars>>

\* a producer calls send_array(socket, array)
PublishArray ==
    /\ Arrives(2)
    /\ \E array \in ProxyArrays : Reach("array", send_array(<<>>, array))
    /\ UNCHANGED <<workers, pc, msg, i, error, receiver_bound, receiver_sent,
                   receiver_closed, ventilator_q, ventilator_bound, ventilator_closed,
                   received, pushed, worker, codecVars>>

\* frames that no helper made: empty, starting with the bytes of the
\* termination message, containing them
RawFrames == {<<>>, TERMINATE \o <<33>>, <<0>> \o TERMINATE \o <<0>>}

\* a producer calls socket.send(body) with bytes of its own
PublishRaw ==
    /\ Arrives(1)
    /\ \E body \in RawFrames : Reach("raw", socket_send(<<>>, body, FALSE))
    /\ UNCHANGED <<workers, pc, msg, i, error, receiver_bound, receiver_sent,
                   receiver_closed, ventilator_q, ventilator_bound, ventilator_closed,
                   received, pushed, worker, codecVars>>

\* a producer calls socket.send(TERMINATE)
PublishTerminate ==
    /\ Arrives(1)
    /\ Reach("terminate", socket_send(<<>>, TERMINATE, FALSE))
    /\ UNCHANGED <<workers, pc, msg, i, error, receiver_bound, receiver_sent,
                   receiver_closed, ventilator_q, ventilator_bound, ventilator_closed,
                   received, pushed, worker, codecVars>>

\* The PUSH socket hands its oldest message to one of the workers still
\* receiving; a worker that is handed the termination message stops.
WorkerRecv(w) ==
    /\ ventilator_q # <<>>
    /\ worker[w].state = "running"
    /\ ventilator_q' = Tail(ventilator_q)
    /\ worker' = [worker EXCEPT ![w] =
                    IF check_termination(Head(ventilator_q).body)
                    THEN [state |-> "terminated", sentinels |-> @.sentinels + 1]
                    ELSE @]
    /\ UNCHANGED <<published, workers, pc, msg, i, error, receiver_q, receiver_bound, receiver_sent,
                   receiver_closed, ventilator_bound, ventilator_closed, received, pushed,
                   codecVars>>

Deliver == \E w \in DOMAIN worker : WorkerRecv(w)

\* ------------------------------------------------ the helpers on one socket
\* One sender and one receiver on a socket pair: the sender makes one call
\* of send_zipped_pickle or send_array, the receiver calls recv_zipped_pickle
\* and recv_array on what arrives.
SendZippedPickle ==
    /\ sent.op = "none"
    /\ \E obj \in Values :
          /\ wire' = send_zipped_pickle(wire, obj)
          /\ sent' = [op |-> "send_zipped_pickle", value |-> obj, frames |-> wire']
    /\ UNCHANGED <<proxyVars, result>>

SendArray ==
    /\ sent.op = "none"
    /\ \E array \in Arrays :
          /\ wire' = send_array(wire, array)
          /\ sent' = [op |-> "send_array", value |-> array, frames |-> wire']
    /\ UNCHANGED <<proxyVars, result>>

\* result.first: the number of frames of the message received before this call
RecvZippedPickle ==
    /\ wire # <<>>
    /\ LET r == recv_zipped_pickle(wire)
       IN  /\ wire' = r.socket
           /\ result' = [op |-> "recv_zipped_pickle", first |-> Len(sent.frames) - Len(wire),
                         ok |-> r.ok, value |-> r.value]
    /\ UNCHANGED <<proxyVars, sent>>

RecvArray ==
    /\ ~recv_array_blocked(wire)
    /\ LET r == recv_array(wire)
       IN  /\ wire' = r.socket
           /\ result' = [op |-> "recv_array", first |-> Len(sent.frames) - Len(wire),
                         ok |-> r.ok, value |-> r.value]
    /\ UNCHANGED <<proxyVars, sent>>

\* bounds of the messages a peer other than send_array puts on the socket
MaxPeerRank == 2
MaxRaw == 24

\* A peer sends a two-part message that send_array did not make: metadata
\* naming a dtype and a shape (a dimension may be -1, which reshape takes
\* for "infer it"), and a raw part of any length.
PeerShapes == SeqsUpTo(-1..MaxDim, MaxPeerRank)

SendPeerArray ==
    /\ sent.op = "none"
    /\ \E d \in DTypes, shape \in PeerShapes, n \in 0..MaxRaw :
          LET dictionary == <<[key |-> KEY_DTYPE, val |-> JsonStr(dtype_str(d))],
                              [key |-> KEY_SHAPE, val |-> JsonList(shape)]>>
          IN  /\ wire' = socket_send(socket_send(wire, json_dumps(dictionary), TRUE),
                                      Buffer("ramp", n), FALSE)
              /\ sent' = [op |-> "peer_array", value |-> NpArray(d, shape, Buffer("ramp", n)),
                          frames |-> wire']
    /\ UNCHANGED <<proxyVars, result>>

\* the objects whose frames a peer or the transport corrupts
CorruptValues ==
    Scalars \cup {PyTuple(<<PyInt(-1), PyInt(65536)>>), PyList(<<PyNone, PyBool(TRUE)>>)}

\* The frame of send_zipped_pickle arrives damaged: cut short after n bytes
\* ("truncated_frame"), with one byte changed ("changed_frame": 8 is added,
\* which leaves the block header bits of the deflate stream as they were),
\* or it is the intact compression of a pickle that was cut short
\* ("truncated_pickle").
SendCorruptObject ==
    /\ sent.op = "none"
    /\ \E obj \in CorruptValues :
          LET object == pickle_dumps(obj)
              frame == zlib_compress(object)
          IN  \/ \E n \in 0..(Len(frame) - 1) :
                    /\ wire' = socket_send(wire, SubSeq(frame, 1, n), FALSE)
                    /\ sent' = [op |-> "truncated_frame", value |-> obj, frames |-> wire']
              \/ \E k \in 1..Len(frame) :
                    /\ wire' = socket_send(wire, [frame EXCEPT ![k] = (@ + 8) % 256], FALSE)
                    /\ sent' = [op |-> "changed_frame", value |-> obj, frames |-> wire']
              \/ \E n \in 0..(Len(object) - 1) :
                    /\ wire' = socket_send(wire, zlib_compress(SubSeq(object, 1, n)), FALSE)
                    /\ sent' = [op |-> "truncated_pickle", value |-> obj, frames |-> wire']
    /\ UNCHANGED <<proxyVars, result>>

CodecInit == ProxyStart(0) /\ CodecIdle

CodecNext ==
    \/ SendZippedPickle
    \/ SendArray
    \/ SendPeerArray
    \/ SendCorruptObject
    \/ RecvZippedPickle
    \/ RecvArray

CodecSpec == CodecInit /\ [][CodecNext]_vars

Init == ProxyInit /\ CodecIdle

Next ==
    \/ BindVentilator
    \/ BindVentilatorFail
    \/ BindReceiver
    \/ BindReceiverFail
    \/ Subscribe
    \/ Recv
    \/ RecvFail
    \/ Forward
    \/ ForwardFail
    \/ DrainSend
    \/ DrainSendFail
    \/ CloseReceiver
    \/ CloseVentilator
    \/ PublishObject
    \/ PublishArray
    \/ PublishRaw
    \/ PublishTerminate
    \/ Deliver

Spec == Init /\ [][Next]_vars

\* run() is one sequential process that is scheduled as long as it can take
\* a step, and the PUSH socket keeps delivering while a worker is receiving;
\* a transport failure may or may not happen.
Fairness ==
    /\ WF_vars(BindVentilator) /\ WF_vars(BindReceiver) /\ WF_vars(Subscribe)
    /\ WF_vars(Recv) /\ WF_vars(Forward) /\ WF_vars(DrainSend)
    /\ WF_vars(CloseReceiver) /\ WF_vars(CloseVentilator)
    /\ WF_vars(Deliver)

FairSpec == Spec /\ Fairness

\* ------------------------------------------------------------------ claims
IsSentinel(frame) == frame = TERMINATE
IsData(frame) == frame # TERMINATE
SentinelCount(frames) == Cardinality({k \in 1..Len(frames) : IsSentinel(frames[k])})
SentinelReceived == \E k \in 1..Len(received) : IsSentinel(received[k])
Inbound == [k \in 1..Len(published) |-> published[k].body]
Copies(frame, n) == [k \in 1..n |-> frame]
DrainEnded == pc \in {"close_ventilator", "done"}

\* C1: with workers = k, a run that receives the sentinel pushes exactly k
\* sentinel frames in total (fewer only while it is still draining or after a
\* send raised, never more), none before the sentinel is received, and no
\* data frame follows a sentinel frame on the outbound side, whatever is
\* still queued inbound.
C1_FanOutTermination ==
    /\ SentinelCount(pushed) <= workers
    /\ ~SentinelReceived => SentinelCount(pushed) = 0
    /\ SentinelReceived => (SentinelCount(pushed) = workers \/ pc \in {"drain", "raised"})
    /\ DrainEnded => SentinelCount(pushed) = workers
    /\ \A j, k \in 1..Len(pushed) : (j < k /\ IsSentinel(pushed[j])) => IsSentinel(pushed[k])

\* C1 witness: two workers, a data frame forwarded, both sentinels pushed,
\* the run ended, and a frame still queued inbound behind the sentinel
C1_Witness ==
    /\ pc = "done" /\ workers = 2
    /\ Len(pushed) = 3 /\ IsData(pushed[1])
    /\ receiver_q # <<>>

\* C2: the data frames pushed are, in order and byte for byte, the frames
\* that arrived before the sentinel, each once; between two receives every
\* frame received so far has been pushed; and when the drain has ended the
\* whole outbound sequence is d1..dn followed by k copies of the sentinel.
C2_OrderPreservation ==
    LET data == SelectSeq(pushed, IsData)
    IN  /\ Len(data) <= Len(Inbound)
        /\ data = SubSeq(Inbound, 1, Len(data))
        /\ received = SubSeq(Inbound, 1, Len(received))
        /\ pc = "recv" => data = received
        /\ pc = "send" => data = SubSeq(received, 1, Len(received) - 1)
        /\ DrainEnded =>
              pushed = SubSeq(Inbound, 1, Len(received) - 1) \o Copies(TERMINATE, workers)

\* C2 witness: two different data frames, then the sentinel, two workers:
\* the run ended after pushing d1, d2 and two sentinels
C2_Witness ==
    /\ pc = "done" /\ workers = 2
    /\ Len(pushed) = 4
    /\ IsData(pushed[1]) /\ IsData(pushed[2]) /\ pushed[1] # pushed[2]

C4_TerminatedIsFinal ==
    /\ [](pc = "done" => (receiver_closed /\ ventilator_closed /\ error = "none"))
    /\ [][pc = "done" =>
             (pc' = "done" /\ UNCHANGED <<received, pushed, receiver_sent, receiver_q, msg, i>>)]_vars

\* C4 witness: the run ended with a frame left on the inbound socket and a
\* frame left for the workers
C4_Witness ==
    /\ pc = "done"
    /\ receiver_q # <<>> /\ ventilator_q # <<>>

\* C5: an exception is recorded exactly when run() has been left by it; a
\* failing send or receive leaves run() at once, and after that nothing is
\* received or sent again (no retry, no re-send of the failed frame).
C5_FailureIsFatal ==
    /\ [](error # "none" <=> pc = "raised")
    /\ [][error # "none" =>
             UNCHANGED <<pc, error, received, pushed, receiver_sent, msg, i>>]_vars
    /\ [][(pc \in {"recv", "send", "drain"} /\ pc' = "raised") =>
             (error' \in {"send", "recv"} /\ UNCHANGED <<received, pushed>>)]_vars

\* C5 witness: the second sentinel copy failed: one copy was pushed, the
\* error left run(), frames are still queued inbound
C5_Witness ==
    /\ pc = "raised" /\ error = "send"
    /\ IsSentinel(msg) /\ i = 1 /\ SentinelCount(pushed) = 1
    /\ receiver_q # <<>>

\* C6 (as claimed): when a send or receive failed during the loop, both
\* sockets have been closed.
C6_ReleasedOnFailure ==
    (pc = "raised" /\ error \in {"send", "recv"}) => (receiver_closed /\ ventilator_closed)

\* C7: no frame made by send_zipped_pickle is the termination message:
\* check_termination is false of it, so a proxy that receives it forwards
\* it and does not drain.
C7_ObjectFrameNotSentinel ==
    sent.op = "send_zipped_pickle" =>
        \A k \in 1..Len(sent.frames) :
            /\ sent.frames[k].body # TERMINATE
            /\ ~check_termination(sent.frames[k].body)

\* C7 witness: a list of two members was sent as one compressed frame
C7_Witness ==
    /\ sent.op = "send_zipped_pickle"
    /\ sent.value.t = "list" /\ Len(sent.value.items) = 2
    /\ Len(sent.frames) = 1 /\ wire = sent.frames

\* C8 (as claimed): no frame made by send_zipped_pickle or send_array,
\* neither the metadata part nor the raw part of an array message, is
\* byte-equal to the termination message.
C8_NoFrameIsSentinel ==
    \A k \in 1..Len(sent.frames) : ~check_termination(sent.frames[k].body)

\* C9: recv_zipped_pickle applied to the frame send_zipped_pickle sent
\* raises nothing and returns a value equal to the one sent.
C9_ObjectRoundTrip ==
    (sent.op = "send_zipped_pickle" /\ result.op = "recv_zipped_pickle") =>
        (result.ok /\ result.value = sent.value)

\* C9 witness: the tuple (-1, 65536) was sent and received
C9_Witness ==
    /\ sent.op = "send_zipped_pickle" /\ result.op = "recv_zipped_pickle"
    /\ sent.value = PyTuple(<<PyInt(-1), PyInt(65536)>>)

\* C10: recv_array applied to the two-part message send_array sent raises
\* nothing and returns an array of the same dtype, the same shape and the
\* same bytes, for every dtype and every shape, a zero-length dimension
\* and rank 3 included.
C10_ArrayRoundTrip ==
    (sent.op = "send_array" /\ result.op = "recv_array" /\ result.first = 0) =>
        /\ result.ok
        /\ result.value.dtype = sent.value.dtype
        /\ result.value.shape = sent.value.shape
        /\ result.value.data = sent.value.data

\* C10 witness: a float32 array of shape (2, 3, 2) was sent and received
C10_Witness ==
    /\ sent.op = "send_array" /\ result.op = "recv_array" /\ result.first = 0
    /\ sent.value.dtype = "float32" /\ sent.value.shape = <<2, 3, 2>>
    /\ Len(sent.value.data) = 48


\* C11 (as claimed): recv_array applied to a two-part message whose raw part
\* is not product(shape) * itemsize(dtype) bytes long raises and returns no
\* array, whether or not the length is a multiple of the item size.
C11_SizeMismatchIsError ==
    (/\ sent.op = "peer_array" /\ result.op = "recv_array" /\ result.first = 0
     /\ Len(sent.value.data) # Product(sent.value.shape) * itemsize(sent.value.dtype))
    => ~result.ok


\* C12: recv_zipped_pickle applied to a damaged object frame raises, and
\* returns no value, whenever zlib.decompress fails on the frame or
\* pickle.loads fails on the decompressed bytes; a frame cut short and the
\* compression of a pickle cut short always raise, and a frame that is
\* still decoded yields the value that was sent.
C12_CorruptObjectIsError ==
    (/\ sent.op \in {"truncated_frame", "changed_frame", "truncated_pickle"}
     /\ result.op = "recv_zipped_pickle" /\ result.first = 0)
    => LET object == zlib_decompress(sent.frames[1].body)
       IN  /\ ~object.ok => ~result.ok
           /\ (object.ok /\ ~pickle_loads(object.data).ok) => ~result.ok
           /\ sent.op \in {"truncated_frame", "truncated_pickle"} => ~result.ok
           /\ result.ok => result.value = sent.value

\* C12 witness: the pickle of (-1, 65536) was cut short before it was
\* compressed: the frame decompresses, loading it raises
C12_Witness ==
    /\ sent.op = "truncated_pickle" /\ sent.value = PyTuple(<<PyInt(-1), PyInt(65536)>>)
    /\ result.op = "recv_zipped_pickle" /\ result.first = 0
    /\ zlib_decompress(sent.frames[1].body).ok
    /\ ~result.ok


\* C13: from the receive that returned the sentinel until the last sentinel
\* copy is pushed, run() receives nothing, and what it pushes is the
\* sentinel: i copies after i iterations, workers copies when the loop over
\* range(self.workers) has ended.
C13_DrainingIsAtomic ==
    /\ [](pc \in {"drain", "close_ventilator", "done"} =>
             /\ received # <<>> /\ IsSentinel(received[Len(received)])
             /\ msg = TERMINATE
             /\ Len(pushed) = (Len(received) - 1) + i
             /\ SubSeq(pushed, Len(received), Len(pushed)) = Copies(TERMINATE, i))
    /\ [](DrainEnded => i = workers)
    /\ [][pc = "drain" =>
             /\ UNCHANGED <<received, msg>>
             /\ pushed' = pushed \/ pushed' = Append(pushed, TERMINATE)]_vars

\* C13 witness: two workers, one sentinel copy pushed and one to go, data
\* forwarded before, and a frame waiting on the inbound socket
C13_Witness ==
    /\ pc = "drain" /\ workers = 2 /\ i = 1
    /\ Len(pushed) = 2 /\ IsData(pushed[1]) /\ IsSentinel(pushed[2])
    /\ receiver_q # <<>>


\* C14: a received frame sends run() to the drain loop exactly when it is
\* byte for byte the termination message; every other frame, empty or
\* undecodable or starting with or containing the bytes of the termination
\* message, is pushed as it was received and run() receives again.
C14_OpaquePassThrough ==
    /\ [][received' # received =>
             /\ received' = Append(received, Head(receiver_q).body)
             /\ msg' = Head(receiver_q).body
             /\ pc' = "drain" <=> msg' = TERMINATE
             /\ pc' = "send" <=> msg' # TERMINATE]_vars
    /\ [][(pc = "send" /\ pc' # "raised" /\ pc' # "send") =>
             /\ pushed' = Append(pushed, msg)
             /\ pc' = "recv"]_vars
    /\ [](pc = "send" => (msg # TERMINATE /\ msg = received[Len(received)]))

\* C14 witness: the empty frame, a frame that starts with the bytes of the
\* termination message and one that contains them were forwarded, and
\* run() is receiving
C14_Witness ==
    /\ pc = "recv"
    /\ pushed = <<TERMINATE \o <<33>>, <<>>, <<0>> \o TERMINATE \o <<0>> >>
    /\ received = pushed


\* C15 (as claimed): a frame that arrived with the MORE flag set (the
\* metadata part of an array message) is pushed with the MORE flag set, so
\* that the two parts leave as one two-part message for a single worker.
C15_MultipartForwarded ==
    \A k \in 1..Len(ventilator_q), j \in 1..Len(published) :
        (published[j].more /\ published[j].body = ventilator_q[k].body) => ventilator_q[k].more


\* C16: run() returns normally only after it received the termination
\* message and pushed all its copies; while no termination message was
\* received and nothing raised it is starting up, receiving or forwarding;
\* and a receive on an empty inbound socket is left only by a frame
\* arriving or by an exception, never by a timeout.
C16_SentinelIsOnlyExit ==
    /\ [](pc = "done" =>
             /\ error = "none" /\ SentinelReceived
             /\ SentinelCount(pushed) = workers
             /\ receiver_closed /\ ventilator_closed)
    /\ []((~SentinelReceived /\ error = "none") =>
             /\ pc \in {"bind_ventilator", "bind_receiver", "subscribe", "recv", "send"}
             /\ ~receiver_closed /\ ~ventilator_closed)
    /\ [][(pc = "recv" /\ receiver_q = <<>>) =>
             (pc' = "recv" \/ (pc' = "raised" /\ error' = "recv"))]_vars

\* C16 witness: two frames forwarded, no termination message so far, the
\* inbound socket empty: run() is blocked in receiver.recv()
C16_Witness ==
    /\ pc = "recv" /\ receiver_q = <<>>
    /\ Len(pushed) = 2 /\ ~SentinelReceived /\ error = "none"


\* the data frames that arrived before the first termination message
BeforeSentinel ==
    LET first == CHOOSE k \in 1..Len(Inbound) :
                     /\ IsSentinel(Inbound[k])
                     /\ \A j \in 1..(k - 1) : IsData(Inbound[j])
    IN  SubSeq(Inbound, 1, first - 1)

\* C17: once the termination message is on the inbound socket, a run in
\* which no send or receive raises eventually returns, and has then
\* forwarded every data frame that arrived before it, pushed workers copies
\* of it and closed both sockets.
C17_ShutdownLiveness ==
    /\ (\E k \in 1..Len(receiver_q) : IsSentinel(receiver_q[k].body))
          ~> (pc = "done" \/ pc = "raised")
    /\ [](pc = "done" =>
             /\ pushed = BeforeSentinel \o Copies(TERMINATE, workers)
             /\ receiver_closed /\ ventilator_closed /\ error = "none")

\* C17 witness: two data frames arrived before the termination message;
\* run() has returned with both of them and two copies pushed
C17_Witness ==
    /\ pc = "done" /\ workers = 2
    /\ Len(BeforeSentinel) = 2
    /\ pushed = BeforeSentinel \o Copies(TERMINATE, 2)
    /\ receiver_closed /\ ventilator_closed


\* C18 (as claimed): a proxy that has started has a worker count of at
\* least 1, and has pushed at least one copy of the termination message
\* when its drain loop has ended.
C18_ConfigurationValid ==
    /\ pc # "bind_ventilator" => workers >= 1
    /\ DrainEnded => SentinelCount(pushed) >= 1


\* C19: when ventilator.bind or receiver.bind raises, the exception leaves
\* run() before the loop: no frame has been or will be received, none is
\* pushed, and the subscription was not sent.
C19_BindFailurePrecedesLoop ==
    /\ [](error = "bind" =>
             /\ pc = "raised"
             /\ received = <<>> /\ pushed = <<>> /\ ventilator_q = <<>>
             /\ receiver_sent = <<>> /\ published = <<>>)
    /\ [][(pc \in {"bind_ventilator", "bind_receiver"} /\ pc' = "raised") =>
             error' = "bind"]_vars
    /\ [][error = "bind" => UNCHANGED <<pc, error, received, pushed>>]_vars

\* C19 witness: the outbound socket is bound, binding the inbound socket
\* raised
C19_Witness ==
    /\ error = "bind" /\ pc = "raised"
    /\ ventilator_bound /\ ~receiver_bound

\* C20: ventilator.bind comes before receiver.bind, which comes before the
\* one subscription frame of one byte on the receiver socket, which comes
\* before the first receive; the subscription is sent once and only frames
\* that were received are pushed.
C20_StartUpOrdering ==
    /\ receiver_bound => ventilator_bound
    /\ receiver_sent # <<>> => receiver_bound
    /\ receiver_sent \in {<<>>, <<SUBSCRIBE_ALL>>} /\ Len(SUBSCRIBE_ALL) = 1
    /\ pc = "bind_ventilator" => ~ventilator_bound
    /\ pc = "bind_receiver" => (ventilator_bound /\ ~receiver_bound)
    /\ pc = "subscribe" => (receiver_bound /\ receiver_sent = <<>>)
    /\ (pc \in {"recv", "send", "drain", "close_ventilator", "done"} \/ received # <<>>)
          => receiver_sent = <<SUBSCRIBE_ALL>>
    /\ \A k \in 1..Len(pushed) : \E j \in 1..Len(received) : pushed[k] = received[j]
    /\ \A k \in 1..Len(ventilator_q) : \E j \in 1..Len(received) :
          ventilator_q[k].body = received[j]

\* C20 witness: both sockets bound, the subscription sent once, and after
\* it frames were received and pushed
C20_Witness ==
    /\ ventilator_bound /\ receiver_bound /\ receiver_sent = <<SUBSCRIBE_ALL>>
    /\ Len(received) = 2 /\ Len(pushed) = 2 /\ pc = "recv"

====
